---- MODULE Spec2Model ----
(***************************************************************************)
(* RequestManager of src/api/tmdb.js: a time-expiring LRU data cache kept  *)
(* in a JavaScript Map (insertion order = recency order) and a Map of      *)
(* pending promises that coalesces concurrent fetches of one key.          *)
(*                                                                         *)
(* A JavaScript Map is modelled as the sequence of its entries in          *)
(* iteration (insertion) order.  JSON values are modelled by their text.   *)
(* One step of the model is one synchronous run of JavaScript: the         *)
(* synchronous body of fetch, or one promise reaction (the then, catch     *)
(* and finally callbacks of the chain built in fetch), or one caller       *)
(* receiving the settled promise.  Reactions run in the job that settled    *)
(* the producer: until they have run, no other upstream answer is handled  *)
(* and the clock does not advance; a call of fetch may come in between.    *)
(***************************************************************************)
EXTENDS Integers, Sequences, FiniteSets, TLC

\* ---------------------------------------------------------------- bounds
\* Number of calls of RequestManager.fetch in a behaviour.
MaxCalls == 4
\* Last instant of the clock (Date.now() ranges over 0..MaxTime).
MaxTime == 2

\* Request paths used as cache keys.
Keys == {"a", "b", "c"}
\* JSON values a producer may resolve with ("0" is the JSON number 0).
Data == {"0", "v1"}
\* Errors a producer may reject with.
Errors == {"e1"}

\* ------------------------------------------------------ configuration
\* this.cacheDuration (options.duration || 10 * 60 * 1000), scaled down.
cacheDuration == 1
\* The values of options.maxSize the manager is constructed with (the
\* default is 1000; 0 is replaced by the default, so the size is positive):
\* fewer than there are keys, so that storing evicts.
Sizes == {2}
\* A capacity no smaller than the number of keys: nothing is ever evicted
\* for want of room.
RoomySize == 3
\* Calls of fetch in a behaviour of a manager of the given capacity: the
\* roomy cache takes one more call to fill and overflow.
CallBound(size) == IF size = RoomySize THEN MaxCalls + 1 ELSE MaxCalls

\* ------------------------------------------------------ JavaScript values
\* The value of a JavaScript expression that is null or undefined.
Null == "null"

\* JavaScript truthiness of a JSON value: `if (cached)`.
Truthy(x) == x \notin {"null", "false", "0", "emptystring"}

\* ------------------------------------------------------ JavaScript Map
MapHas(m, k) == \E i \in 1..Len(m) : m[i].k = k

MapIndex(m, k) == CHOOSE i \in 1..Len(m) : m[i].k = k

\* Map.prototype.get: the value, or undefined.
MapGet(m, k) == IF MapHas(m, k) THEN m[MapIndex(m, k)].v ELSE Null

\* Map.prototype.delete: removes the entry, keeps the order of the others.
MapDelete(m, k) == SelectSeq(m, LAMBDA e : e.k # k)

\* Map.prototype.set: an existing key keeps its position and gets the new
\* value; a new key is appended.
MapSet(m, k, v) ==
    IF MapHas(m, k)
    THEN [m EXCEPT ![MapIndex(m, k)] = [k |-> k, v |-> v]]
    ELSE Append(m, [k |-> k, v |-> v])

\* The key inserted last, taken for the oldest.
MapLastKey(m) == IF Len(m) = 0 THEN Null ELSE m[Len(m)].k

\* map.keys().next().value: the first key in iteration order, or undefined.
MapFirstKey(m) == IF Len(m) = 0 THEN Null ELSE m[1].k

MapKeys(m) == [i \in 1..Len(m) |-> m[i].k]

\* ------------------------------------------------------ state
VARIABLES
    handler,          \* which of the two module.exports handlers is deployed
    maxSize,          \* this.maxSize, set by the constructor
    now,              \* Date.now()
    dataCache,        \* this.dataCache: Map key -> {data, expiry}
    pendingRequests,  \* this.pendingRequests: Map key -> promise (its id)
    promises,         \* the promise chains built by fetch that are still referenced
    nCalls,           \* number of calls of fetch so far
    ev,               \* what the last step did, as its caller observes it
    lru,              \* history: keys of dataCache in order of last touch
    setLog,           \* history: keys stored so far, while no read found an entry
    failed            \* history: keys for which a caller has received a rejection

vars == <<handler, maxSize, now, dataCache, pendingRequests, promises, nCalls, ev, lru, setLog, failed>>

NoLog == <<"-">>

\* ------------------------------------------------------ the cache
\* A get that never checks the expiry.
ExpiredNever(item, t) == FALSE

\* An entry taken for expired from the instant of its expiry on.
ExpiredAtBoundary(item, t) == t >= item.expiry

\* if (Date.now() > item.expiry)
Expired(item, t) == t > item.expiry

\* _getFromDataCache: the value returned.
GetResult(cache, key, t) ==
    LET item == MapGet(cache, key) IN
    IF ~MapHas(cache, key) THEN Null
    ELSE IF Expired(item, t) THEN Null
    ELSE item.data

\* A get that renews the expiry of the entry it returns (sliding expiry).
GetCacheSliding(cache, key, t) ==
    LET item == MapGet(cache, key) IN
    IF ~MapHas(cache, key) THEN cache
    ELSE IF Expired(item, t) THEN MapDelete(cache, key)
    ELSE MapSet(MapDelete(cache, key), key,
                [data |-> item.data, expiry |-> t + cacheDuration])

\* _getFromDataCache: the cache it leaves.
GetCache(cache, key, t) ==
    LET item == MapGet(cache, key) IN
    IF ~MapHas(cache, key) THEN cache
    ELSE IF Expired(item, t) THEN MapDelete(cache, key)
    ELSE MapSet(MapDelete(cache, key), key, item)

\* A set that never evicts.
SetCacheNoEvict(cache, key, data, t) ==
    MapSet(cache, key, [data |-> data, expiry |-> t + cacheDuration])

\* A set that stores the time of the write as the expiry.
SetCacheNoTtl(cache, key, data, t) ==
    LET c1 == IF Len(cache) >= maxSize
              THEN MapDelete(cache, MapFirstKey(cache))
              ELSE cache
    IN MapSet(c1, key, [data |-> data, expiry |-> t])

\* _setToDataCache.
SetCache(cache, key, data, t) ==
    LET c1 == IF Len(cache) >= maxSize
              THEN MapDelete(cache, MapFirstKey(cache))
              ELSE cache
    IN MapSet(c1, key, [data |-> data, expiry |-> t + cacheDuration])

\* ------------------------------------------------------ fetch
\* fetch without step B: it never looks at pendingRequests.
FetchBranchNoCoalesce(cache, pending, key, t) ==
    IF Truthy(GetResult(cache, key, t)) THEN "hit" ELSE "start"

\* Which branch fetch takes: the cached value is truthy (A), a promise is
\* pending for the key (B), or the producer is invoked (C).
FetchBranch(cache, pending, key, t) ==
    IF Truthy(GetResult(cache, key, t)) THEN "hit"
    ELSE IF MapHas(pending, key) THEN "join"
    ELSE "start"

\* The settlement of a promise: fulfilled with v, or rejected with v.
Fulfilled(v) == [ok |-> TRUE, v |-> v]
Rejected(v) == [ok |-> FALSE, v |-> v]
Unsettled == [ok |-> TRUE, v |-> "-"]

\* A then reaction that stores whatever the producer settled with.
ThenCacheAlways(cache, key, res, t) == SetCache(cache, key, res.v, t)

\* .then((data) => { this._setToDataCache(key, data); return data; }):
\* what the reaction does to the cache, given the settlement of fetcherFn().
ThenCache(cache, key, res, t) ==
    IF res.ok THEN SetCache(cache, key, res.v, t) ELSE cache

\* ... and the settlement of the promise then returns.
ThenValue(res) == res

\* A catch reaction that swallows the error: .catch((err) => {}).
CatchValueSwallow(res) == IF res.ok THEN res ELSE [ok |-> TRUE, v |-> Null]

\* A then reaction after which the chain never proceeds (the promise it
\* returns stays pending): neither catch nor finally ever runs.
ChainHangs(h) == "settled"

\* The reaction that follows then: the chain of the second manager is
\* then, catch, finally; that of the first manager is then, finally (the
\* promise settled by then is the one finally reacts to).
ChainAfterThen(h) == IF h = 1 THEN "catch" ELSE "then"

\* .catch((err) => { throw err; }): the settlement of the promise it returns.
CatchValue(res) == IF res.ok THEN res ELSE Rejected(res.v)

\* A finally reaction that forgets the delete.
FinallyPendingKeep(pending, key) == pending

\* .finally(() => { this.pendingRequests.delete(key); }).
FinallyPending(pending, key) == MapDelete(pending, key)

\* What a caller awaiting the promise returned by fetch receives.
Delivered(p) == p.val

\* History: the keys of cache c in order of last touch, after key k was touched.
Touched(l, c, k) ==
    Append(SelectSeq(l, LAMBDA x : x # k /\ MapHas(c, x)), k)

Untouched(l, c) == SelectSeq(l, LAMBDA x : MapHas(c, x))

InSeq(s, x) == \E i \in 1..Len(s) : s[i] = x

\* ev: op is the step taken, key its key, id the promise chain it concerns;
\* got is what _getFromDataCache returned to fetch; val is the value fetch
\* returned (a hit), the settlement of the producer, or the value or error a
\* caller received; a call that invokes the producer is marked "retry" when
\* a caller has received a rejection for the key before.
Event(op, key, id, got, val) ==
    [op |-> op, key |-> key, id |-> id, got |-> got, val |-> val]

NoEv == Event("init", "-", 0, "-", "-")

Promise(id) == CHOOSE p \in promises : p.id = id

\* fetch(key, fetcherFn), up to the promise it returns: the cache read, then
\* the cached value, the pending promise, or a new promise chain registered
\* in pendingRequests.
Fetch(key) ==
    LET branch == FetchBranch(dataCache, pendingRequests, key, now)
        found == MapHas(dataCache, key)
        cache1 == GetCache(dataCache, key, now)
        got == GetResult(dataCache, key, now)
        id == nCalls + 1
    IN
    /\ nCalls < CallBound(maxSize)
    /\ nCalls' = id
    /\ dataCache' = cache1
    /\ lru' = IF MapHas(cache1, key) THEN Touched(lru, cache1, key)
              ELSE Untouched(lru, cache1)
    /\ setLog' = IF found THEN NoLog ELSE setLog
    /\ UNCHANGED <<handler, maxSize, now, failed>>
    /\ CASE branch = "hit" ->
              /\ ev' = Event("hit", key, 0, got, got)
              /\ UNCHANGED <<pendingRequests, promises>>
         [] branch = "join" ->
              LET p == Promise(MapGet(pendingRequests, key)) IN
              /\ promises' = (promises \ {p}) \cup
                             {[p EXCEPT !.waiters = p.waiters + 1]}
              /\ ev' = Event("join", key, p.id, got, "-")
              /\ UNCHANGED pendingRequests
         [] branch = "start" ->
              /\ promises' = promises \cup
                   {[id |-> id, key |-> key, phase |-> "pending",
                     out |-> Unsettled, val |-> Unsettled,
                     waiters |-> 1, early |-> 0]}
              /\ pendingRequests' = MapSet(pendingRequests, key, id)
              /\ ev' = Event("start", key, id, got,
                             IF key \in failed THEN "retry" ELSE "-")

\* Promise reactions are queued: the job that settled a producer has not
\* finished.  The event loop takes no further job (an upstream answer), and
\* the clock does not advance, until the reactions have run.
Busy == \E p \in promises : p.phase # "pending"

\* fetcherFn()'s promise settles: the upstream answered (res).
Settle(p, res) ==
    /\ ~Busy
    /\ p.phase = "pending"
    /\ promises' = (promises \ {p}) \cup
                   {[p EXCEPT !.phase = "settled", !.out = res, !.val = res,
                              !.early = p.waiters]}
    /\ ev' = Event("settle", p.key, p.id, "-", "-")
    /\ UNCHANGED <<handler, maxSize, now, dataCache, pendingRequests, nCalls, lru, setLog, failed>>

\* The reaction registered by .then runs (phase "catch": the catch reaction
\* has run or there is none, the finally reaction is next).
ThenStep(p) ==
    LET cache1 == ThenCache(dataCache, p.key, p.val, now) IN
    /\ p.phase = "settled"
    /\ dataCache' = cache1
    /\ promises' = (promises \ {p}) \cup
                   {[p EXCEPT !.phase = ChainAfterThen(handler),
                              !.val = ThenValue(p.val)]}
    /\ lru' = IF p.val.ok THEN Touched(lru, cache1, p.key) ELSE lru
    /\ setLog' = IF ~p.val.ok THEN setLog
                 ELSE IF setLog = NoLog \/ InSeq(setLog, p.key) THEN NoLog
                 ELSE Append(setLog, p.key)
    /\ ev' = Event("then", p.key, p.id, "-", "-")
    /\ UNCHANGED <<handler, maxSize, now, pendingRequests, nCalls, failed>>

\* The reaction registered by .catch runs.
CatchStep(p) ==
    /\ p.phase = "then"
    /\ promises' = (promises \ {p}) \cup
                   {[p EXCEPT !.phase = "catch", !.val = CatchValue(p.val)]}
    /\ ev' = Event("catch", p.key, p.id, "-", "-")
    /\ UNCHANGED <<handler, maxSize, now, dataCache, pendingRequests, nCalls, lru, setLog, failed>>

\* The reaction registered by .finally runs and the promise fetch returned settles.
FinallyStep(p) ==
    /\ p.phase = "catch"
    /\ pendingRequests' = FinallyPending(pendingRequests, p.key)
    /\ promises' = (promises \ {p}) \cup {[p EXCEPT !.phase = "done"]}
    /\ ev' = Event("finally", p.key, p.id, "-", "-")
    /\ UNCHANGED <<handler, maxSize, now, dataCache, nCalls, lru, setLog, failed>>

\* One caller awaiting the promise receives its value or its rejection.  A
\* promise no caller awaits any more is dropped.
Deliver(p) ==
    LET res == Delivered(p) IN
    /\ p.phase = "done"
    /\ p.waiters > 0
    /\ promises' = IF p.waiters = 1 THEN promises \ {p}
                   ELSE (promises \ {p}) \cup {[p EXCEPT !.waiters = p.waiters - 1]}
    /\ ev' = Event(IF res.ok THEN "resolved" ELSE "rejected",
                   p.key, p.id, "-", res.v)
    /\ failed' = IF res.ok THEN failed ELSE failed \cup {p.key}
    /\ UNCHANGED <<handler, maxSize, now, dataCache, pendingRequests, nCalls, lru, setLog>>

\* Date.now() advances.
Tick ==
    /\ ~Busy
    /\ now < MaxTime
    /\ now' = now + 1
    /\ ev' = Event("tick", "-", 0, "-", "-")
    /\ UNCHANGED <<handler, maxSize, dataCache, pendingRequests, promises, nCalls, lru, setLog, failed>>

\* new RequestManager()
Init ==
    /\ handler = 2
    /\ maxSize \in Sizes
    /\ now = 0
    /\ dataCache = <<>>
    /\ pendingRequests = <<>>
    /\ promises = {}
    /\ nCalls = 0
    /\ ev = NoEv
    /\ lru = <<>>
    /\ setLog = <<>>
    /\ failed = {}

Next ==
    \/ \E key \in Keys : Fetch(key)
    \/ \E p \in promises : \E d \in Data : Settle(p, Fulfilled(d))
    \/ \E p \in promises : \E e \in Errors : Settle(p, Rejected(e))
    \/ \E p \in promises : ThenStep(p)
    \/ \E p \in promises : CatchStep(p)
    \/ \E p \in promises : FinallyStep(p)
    \/ \E p \in promises : Deliver(p)
    \/ Tick

Spec == Init /\ [][Next]_vars

\* new RequestManager({maxSize: RoomySize})
InitRoomy ==
    /\ handler = 2
    /\ maxSize = RoomySize
    /\ now = 0
    /\ dataCache = <<>>
    /\ pendingRequests = <<>>
    /\ promises = {}
    /\ nCalls = 0
    /\ ev = NoEv
    /\ lru = <<>>
    /\ setLog = <<>>
    /\ failed = {}

SpecRoomy == InitRoomy /\ [][Next]_vars

\* ------------------------------------------------------ fairness
\* Every invoked producer eventually settles (the upstream call answers or
\* fails), and the event loop eventually runs every queued reaction and
\* resumes every awaiting caller.
ProducersSettle ==
    \E p \in promises :
        \/ \E d \in Data : Settle(p, Fulfilled(d))
        \/ \E e \in Errors : Settle(p, Rejected(e))

ReactionsRun ==
    \E p \in promises : ThenStep(p) \/ CatchStep(p) \/ FinallyStep(p)

CallersResume == \E p \in promises : Deliver(p)

SpecLive ==
    /\ Init /\ [][Next]_vars
    /\ WF_vars(ProducersSettle)
    /\ WF_vars(ReactionsRun)
    /\ WF_vars(CallersResume)

\* ------------------------------------------------------ the HTTP handlers
\* The two module.exports handlers of src/api/tmdb.js: each takes the
\* request path as cache key and passes manager.fetch a producer that asks
\* the upstream API with the Authorization header of its own request.

\* Request paths of API requests.
Paths == {"a", "b"}
\* req.headers.authorization: a credential, or no header.
Auths == {"A", "none"}

\* Answers of the upstream API: status, body text, status text; "net" is a
\* network failure (fetch itself rejects).
RespOk == [kind |-> "http", ok |-> TRUE, status |-> "200", text |-> "json", statusText |-> "OK"]
RespNotFound == [kind |-> "http", ok |-> FALSE, status |-> "404", text |-> "nf", statusText |-> "Not Found"]
RespUnavailable == [kind |-> "http", ok |-> FALSE, status |-> "503", text |-> "", statusText |-> "Service Unavailable"]
RespNetwork == [kind |-> "net", ok |-> FALSE, status |-> "-", text |-> "-", statusText |-> "-"]
Responses == {RespOk, RespNotFound, RespUnavailable, RespNetwork}

\* The JSON the upstream API answers a request carrying the given header.
UpstreamJson(auth) == IF auth = "none" THEN "vPublic" ELSE "vA"

\* The pieces an error message is concatenated from.
\* First handler: throw new Error(txt || response.statusText).
ErrorPieces1(r) == <<IF r.text # "" THEN r.text ELSE r.statusText>>
\* Second handler: throw new Error(`TMDB API Error ${response.status}: ${errorText}`).
ErrorPieces2(r) == <<"TMDB API Error ", r.status, ": ", r.text>>
\* The message of the error fetch rejects with when the network fails.
NetworkPieces == <<"fetch failed">>

\* String concatenation, for the messages that can arise.
Concat(s) ==
    CASE s = <<"nf">> -> "nf"
      [] s = <<"Service Unavailable">> -> "Service Unavailable"
      [] s = <<"TMDB API Error ", "404", ": ", "nf">> -> "TMDB API Error 404: nf"
      [] s = <<"TMDB API Error ", "503", ": ", "">> -> "TMDB API Error 503: "
      [] s = NetworkPieces -> "fetch failed"

HttpErrors == {r \in Responses : r.kind = "http" /\ ~r.ok}
MessagePieces ==
    {ErrorPieces1(r) : r \in HttpErrors} \cup {ErrorPieces2(r) : r \in HttpErrors}
        \cup {NetworkPieces}

\* message.includes(x), for a message that can arise and a piece x.
Includes(msg, x) ==
    \E s \in MessagePieces : Concat(s) = msg /\ InSeq(s, x)

\* The producer a handler passes to manager.fetch, as the settlement it
\* reaches when the upstream answers r to the request made with header auth.
Producer(h, auth, r) ==
    IF r.kind = "net" THEN Rejected(Concat(NetworkPieces))
    ELSE IF r.ok THEN Fulfilled(UpstreamJson(auth))
    ELSE IF h = 1 THEN Rejected(Concat(ErrorPieces1(r)))
    ELSE Rejected(Concat(ErrorPieces2(r)))

\* The HTTP response a handler sends for what manager.fetch gave it.
HandlerResponse(h, res) ==
    IF res.ok THEN [status |-> "200", body |-> res.v]
    ELSE IF h = 1 THEN [status |-> "500", body |-> res.v]
    ELSE [status |-> IF Includes(res.v, "TMDB API Error ") THEN "502" ELSE "500",
          body |-> res.v]

\* A cache key that is the credential when the request carries one.
CacheKeyByAuth(fullPath, authHeader) ==
    IF authHeader = "none" THEN fullPath ELSE authHeader

\* const cacheKey = fullPath: the Authorization header is not part of it.
CacheKey(fullPath, authHeader) == fullPath

\* A handler takes an API request: manager.fetch(cacheKey, producer) with a
\* producer that closes over the request's Authorization header.
Request(path, auth) ==
    LET key == CacheKey(path, auth)
        branch == FetchBranch(dataCache, pendingRequests, key, now)
        cache1 == GetCache(dataCache, key, now)
        got == GetResult(dataCache, key, now)
        id == nCalls + 1
        label(op, pid) == [op |-> op, key |-> path, id |-> pid, got |-> got,
                           val |-> IF op = "hit" THEN got ELSE "-", auth |-> auth]
    IN
    /\ nCalls < MaxCalls
    /\ nCalls' = id
    /\ dataCache' = cache1
    /\ lru' = IF MapHas(cache1, key) THEN Touched(lru, cache1, key)
              ELSE Untouched(lru, cache1)
    /\ setLog' = IF MapHas(dataCache, key) THEN NoLog ELSE setLog
    /\ UNCHANGED <<handler, maxSize, now, failed>>
    /\ CASE branch = "hit" ->
              /\ ev' = label("hit", 0)
              /\ UNCHANGED <<pendingRequests, promises>>
         [] branch = "join" ->
              LET p == Promise(MapGet(pendingRequests, key)) IN
              /\ promises' = (promises \ {p}) \cup
                             {[p EXCEPT !.waiters = p.waiters + 1]}
              /\ ev' = label("join", p.id)
              /\ UNCHANGED pendingRequests
         [] branch = "start" ->
              /\ promises' = promises \cup
                   {[id |-> id, key |-> key, phase |-> "pending",
                     out |-> Unsettled, val |-> Unsettled,
                     waiters |-> 1, early |-> 0, auth |-> auth]}
              /\ pendingRequests' = MapSet(pendingRequests, key, id)
              /\ ev' = label("start", id)

\* The upstream answers the request of a producer, which settles.
Answer(p, r) ==
    LET res == Producer(handler, p.auth, r) IN
    /\ ~Busy
    /\ p.phase = "pending"
    /\ promises' = (promises \ {p}) \cup
                   {[p EXCEPT !.phase = "settled", !.out = res, !.val = res,
                              !.early = p.waiters]}
    /\ ev' = [op |-> "settle", key |-> p.key, id |-> p.id, got |-> "-",
              val |-> "-", resp |-> r, auth |-> p.auth]
    /\ UNCHANGED <<handler, maxSize, now, dataCache, pendingRequests, nCalls, lru, setLog, failed>>

\* The await of manager.fetch returns or throws in one handler, which sends
\* its HTTP response.
Respond(p) ==
    LET res == Delivered(p) IN
    /\ p.phase = "done"
    /\ p.waiters > 0
    /\ promises' = IF p.waiters = 1 THEN promises \ {p}
                   ELSE (promises \ {p}) \cup {[p EXCEPT !.waiters = p.waiters - 1]}
    /\ ev' = [op |-> IF res.ok THEN "resolved" ELSE "rejected", key |-> p.key,
              id |-> p.id, got |-> "-", val |-> res.v,
              http |-> HandlerResponse(handler, res)]
    /\ failed' = IF res.ok THEN failed ELSE failed \cup {p.key}
    /\ UNCHANGED <<handler, maxSize, now, dataCache, pendingRequests, nCalls, lru, setLog>>

\* One of the two handlers is deployed, with its own new RequestManager().
InitHandler ==
    /\ handler \in {1, 2}
    /\ maxSize \in Sizes
    /\ now = 0
    /\ dataCache = <<>>
    /\ pendingRequests = <<>>
    /\ promises = {}
    /\ nCalls = 0
    /\ ev = NoEv
    /\ lru = <<>>
    /\ setLog = <<>>
    /\ failed = {}

NextHandler ==
    \/ \E path \in Paths : \E auth \in Auths : Request(path, auth)
    \/ \E p \in promises : \E r \in Responses : Answer(p, r)
    \/ \E p \in promises : ThenStep(p)
    \/ \E p \in promises : CatchStep(p)
    \/ \E p \in promises : FinallyStep(p)
    \/ \E p \in promises : Respond(p)
    \/ Tick

SpecHandler == InitHandler /\ [][NextHandler]_vars

\* ====================================================== properties
\* The step is a call fetch(k, ...).
IsFetch(k) == nCalls' = nCalls + 1 /\ ev'.key = k

\* The step hands the settled promise p to one of its callers.
IsDeliver(p) ==
    /\ p.phase = "done"
    /\ ev'.op \in {"resolved", "rejected"}
    /\ ev'.id = p.id

\* The step runs reaction op of promise chain p.
IsReaction(p, op) == ev'.op = op /\ ev'.id = p.id

PromiseIds(ps) == {p.id : p \in ps}

\* C1: every call of fetch(k) that starts while a producer for k is invoked
\* and not yet settled joins that producer's promise and invokes no producer
\* (so N such calls run one producer), and when that producer resolves with
\* v every caller awaiting the promise receives v.
C1_Coalescing ==
    [][\A p \in promises :
         /\ (IsFetch(p.key) /\ p.phase = "pending")
              => /\ ev'.op = "join"
                 /\ ev'.id = p.id
                 /\ PromiseIds(promises') = PromiseIds(promises)
                 /\ \E q \in promises' : q.id = p.id /\ q.waiters = p.waiters + 1
         /\ (IsDeliver(p) /\ p.out.ok)
              => ev'.op = "resolved" /\ ev'.val = p.out.v
      ]_vars

\* Three callers were coalesced on one producer before it settled, it
\* resolved, one of them has received the value and the others are about to.
C1_Witness ==
    \E p \in promises :
        /\ p.phase = "done" /\ p.out.ok /\ p.early >= 3 /\ p.waiters >= 1
        /\ ev.op = "resolved" /\ ev.id = p.id /\ ev.val = p.out.v

\* C2: per key there is at most one producer invoked and not yet settled,
\* it is the one registered in pendingRequests, and pendingRequests holds at
\* most one entry per key.
C2_OneInFlightPerKey ==
    \A k \in Keys :
        /\ Cardinality({p \in promises : p.key = k /\ p.phase = "pending"}) <= 1
        /\ Cardinality({i \in 1..Len(pendingRequests) : pendingRequests[i].k = k}) <= 1
        /\ \A p \in promises :
             (p.key = k /\ p.phase = "pending")
                => MapHas(pendingRequests, k) /\ MapGet(pendingRequests, k) = p.id

\* Producers of two keys are in flight, one of them with a coalesced caller,
\* while the cache holds an expired entry.
C2_Witness ==
    /\ Len(pendingRequests) >= 2
    /\ \E p \in promises : p.phase = "pending" /\ p.waiters >= 2
    /\ \E i \in 1..Len(dataCache) : Expired(dataCache[i].v, now)

\* C3 as claimed: when a producer rejects with error e, every caller
\* awaiting its promise receives the rejection e; and every fetch of the key
\* made after a caller has received that rejection invokes its producer anew.
C3_AnyLaterCallInvokes ==
    [][/\ \A p \in promises :
            (IsDeliver(p) /\ ~p.out.ok)
               => ev'.op = "rejected" /\ ev'.val = p.out.v
       /\ \A k \in failed :
            IsFetch(k)
               => /\ ev'.op = "start"
                  /\ \E q \in promises' :
                        /\ q.id \notin PromiseIds(promises)
                        /\ q.key = k /\ q.phase = "pending"
                        /\ MapGet(pendingRequests', k) = q.id
      ]_vars

\* C3 as amended: when a producer rejects with error e, every caller
\* awaiting its promise receives the rejection e, and the failed computation
\* is neither cached nor reused: a fetch of the key made after a caller has
\* received the rejection invokes its producer anew, unless a newer producer
\* for the key is registered in pendingRequests (the call joins that one, a
\* promise no caller has received yet) or a value a producer resolved with is
\* cached (the call is served that value).
C3_FailureNotReused ==
    [][/\ \A p \in promises :
            (IsDeliver(p) /\ ~p.out.ok)
               => ev'.op = "rejected" /\ ev'.val = p.out.v
       /\ \A k \in failed :
            IsFetch(k)
               => \/ /\ ev'.op = "start"
                     /\ ~MapHas(pendingRequests, k)
                     /\ \E q \in promises' :
                           /\ q.id \notin PromiseIds(promises)
                           /\ q.key = k /\ q.phase = "pending"
                           /\ MapGet(pendingRequests', k) = q.id
                  \/ /\ ev'.op = "join"
                     /\ MapHas(pendingRequests, k)
                     /\ ev'.id = MapGet(pendingRequests, k)
                     /\ \E q \in promises : q.id = ev'.id /\ q.phase # "done"
                     /\ PromiseIds(promises') = PromiseIds(promises)
                  \/ /\ ev'.op = "hit"
                     /\ ev'.val \in Data
                     /\ MapHas(dataCache, k)
                     /\ ev'.val = MapGet(dataCache, k).data
                     /\ promises' = promises
      ]_vars

\* Two callers were coalesced on a producer before it rejected, one of them
\* has received the rejection, and a later fetch of the key has invoked the
\* producer anew.
C3_Witness ==
    /\ ev.op = "start" /\ ev.val = "retry"
    /\ \E p1 \in promises, p2 \in promises :
          /\ p1.key = ev.key /\ p1.phase = "done" /\ ~p1.out.ok /\ p1.early >= 2
          /\ p2.key = ev.key /\ p2.id = ev.id /\ p2.phase = "pending"

\* C4: handling a producer's rejection (its settlement and the then, catch
\* and finally reactions that follow) leaves dataCache as it was: keys,
\* values, expiries and order.
C4_FailureLeavesCache ==
    [][\A p \in promises :
         \/ /\ p.phase = "pending"
            /\ IsReaction(p, "settle")
            /\ \E q \in promises' : q.id = p.id /\ ~q.out.ok
         \/ /\ ~p.out.ok
            /\ \/ p.phase = "settled" /\ IsReaction(p, "then")
               \/ p.phase = "then" /\ IsReaction(p, "catch")
               \/ p.phase = "catch" /\ IsReaction(p, "finally")
         => dataCache' = dataCache
      ]_vars

\* A rejection has been handled to its end (the pending entry is removed)
\* while the cache held an entry for the failed key and one for another key.
C4_Witness ==
    /\ ev.op = "finally"
    /\ \E p \in promises : p.id = ev.id /\ ~p.out.ok /\ p.phase = "done"
    /\ MapHas(dataCache, ev.key)
    /\ Len(dataCache) >= 2
    /\ ~MapHas(pendingRequests, ev.key)

\* C5 as claimed: a fetch of a key whose cache entry has not expired
\* returns the stored value, whatever it is, invokes no producer and leaves
\* pendingRequests and the promises alone.
C5_HitServesStored ==
    [][\A k \in Keys :
         (IsFetch(k) /\ MapHas(dataCache, k) /\ now < MapGet(dataCache, k).expiry)
            => /\ ev'.op = "hit"
               /\ ev'.val = MapGet(dataCache, k).data
               /\ promises' = promises
               /\ pendingRequests' = pendingRequests
      ]_vars

\* C6: when a producer resolves with v at time t, its then reaction (which
\* runs once, in the job that settled it) stores [data v, expiry t + ttl]
\* under the key; no other step adds or changes a cache entry; and every
\* caller awaiting the promise receives v.
C6_StoreOnSuccess ==
    [][/\ \A p \in promises :
            /\ (p.phase = "settled" /\ p.out.ok /\ IsReaction(p, "then"))
                 => /\ MapHas(dataCache', p.key)
                    /\ MapGet(dataCache', p.key) =
                          [data |-> p.out.v, expiry |-> now + cacheDuration]
                    /\ now' = now
            /\ IsReaction(p, "then")
                 => /\ p.phase = "settled"
                    /\ \E q \in promises' : q.id = p.id /\ q.phase = "then"
            /\ (IsDeliver(p) /\ p.out.ok)
                 => ev'.op = "resolved" /\ ev'.val = p.out.v
       /\ \A i \in 1..Len(dataCache') :
            (\A j \in 1..Len(dataCache) : dataCache[j] # dataCache'[i])
               => \E p \in promises :
                     /\ p.phase = "settled" /\ p.out.ok /\ IsReaction(p, "then")
                     /\ dataCache'[i].k = p.key
      ]_vars

\* Of two calls the first one's producer has just resolved and its value is
\* stored with expiry now + ttl.  The second call came later and its entry,
\* stored when its producer resolved, expires earlier: the first call
\* started before the instant it completed at.
C6_Witness ==
    /\ nCalls = 2 /\ ev.op = "then" /\ ev.id = 1
    /\ MapHas(dataCache, ev.key)
    /\ MapGet(dataCache, ev.key).expiry = now + cacheDuration
    /\ \E i \in 1..Len(dataCache) :
          /\ dataCache[i].k # ev.key
          /\ dataCache[i].v.expiry < now + cacheDuration

\* C7: dataCache never holds more than maxSize entries.
C7_SizeBounded == maxSize >= 1 /\ Len(dataCache) <= maxSize

\* A value has just been stored, the cache is full, and a key stored
\* earlier is gone: it was evicted.
C7_Witness ==
    /\ ev.op = "then"
    /\ Len(dataCache) = maxSize
    /\ setLog # NoLog
    /\ \E i \in 1..Len(setLog) : ~MapHas(dataCache, setLog[i])

\* C8: after N > maxSize distinct keys were stored one after another in an
\* empty cache, no read finding an entry in between, the cache holds the
\* maxSize keys stored last, in the order they were stored.
C8_KeepsMostRecent ==
    (setLog # NoLog /\ Len(setLog) > maxSize)
       => MapKeys(dataCache) =
             SubSeq(setLog, Len(setLog) - maxSize + 1, Len(setLog))

\* Three distinct keys were stored in a cache of capacity two: the last two
\* remain.
C8_Witness ==
    /\ setLog # NoLog /\ Len(setLog) = 3 /\ maxSize = 2
    /\ MapKeys(dataCache) = Tail(setLog)

\* C9 as claimed: the iteration order of dataCache is the order of last
\* touch (a get that found a live entry, or a set), so that the entry evicted
\* at capacity, the first one, is the least recently touched.
C9_OrderIsLastTouch == MapKeys(dataCache) = lru

\* C10 as claimed: a get of an entry stored at t0 with ttl T is a hit at
\* elapsed time e < T and a miss, the entry being treated as absent, at e >= T.
C10_MissFromExpiry ==
    [][\A k \in Keys :
         (IsFetch(k) /\ MapHas(dataCache, k))
            => LET item == MapGet(dataCache, k)
                   e == now - (item.expiry - cacheDuration)
               IN /\ e < cacheDuration
                       => /\ ev'.got = item.data
                          /\ dataCache'[Len(dataCache')] = [k |-> k, v |-> item]
                  /\ e >= cacheDuration
                       => /\ ev'.got = Null
                          /\ ~MapHas(dataCache', k)
      ]_vars

\* C10 as amended: a get of an entry stored at t0 with ttl T returns the
\* stored value and keeps the entry (as the most recent one) at elapsed time
\* e <= T, and returns null and deletes the entry at e > T.
C10_HitThroughExpiry ==
    [][\A k \in Keys :
         (IsFetch(k) /\ MapHas(dataCache, k))
            => LET item == MapGet(dataCache, k)
                   e == now - (item.expiry - cacheDuration)
               IN /\ e <= cacheDuration
                       => /\ ev'.got = item.data
                          /\ Len(dataCache') = Len(dataCache)
                          /\ dataCache'[Len(dataCache')] = [k |-> k, v |-> item]
                  /\ e > cacheDuration
                       => /\ ev'.got = Null
                          /\ ~MapHas(dataCache', k)
                          /\ Len(dataCache') = Len(dataCache) - 1
      ]_vars

\* A fetch has just read an entry at the very instant of its expiry and got
\* its value.
C10_Witness ==
    /\ ev.op \in {"hit", "join", "start"}
    /\ MapHas(dataCache, ev.key)
    /\ MapGet(dataCache, ev.key).expiry = now
    /\ ev.got = MapGet(dataCache, ev.key).data

\* C11: a get finds an entry expired exactly when now > expiry: it returns
\* null and deletes the entry then, and returns the stored value otherwise,
\* also when expiry = now; and neither get nor fetch ever returns as a hit
\* the value of an entry whose expiry is earlier than now.
C11_StrictExpiry ==
    [][\A k \in Keys :
         IsFetch(k)
            => /\ MapHas(dataCache, k)
                    => LET item == MapGet(dataCache, k) IN
                       /\ (ev'.got = Null) <=> (now > item.expiry)
                       /\ (now > item.expiry) <=> ~MapHas(dataCache', k)
                       /\ (now = item.expiry) => ev'.got = item.data
               /\ (ev'.got # Null \/ ev'.op = "hit")
                    => /\ MapHas(dataCache, k)
                       /\ MapGet(dataCache, k).expiry >= now
                       /\ ev'.got = MapGet(dataCache, k).data
      ]_vars

\* fetch has just returned, as a hit, the value of an entry that expires at
\* this very instant.
C11_Witness ==
    /\ ev.op = "hit"
    /\ MapHas(dataCache, ev.key)
    /\ MapGet(dataCache, ev.key).expiry = now
    /\ ev.val = MapGet(dataCache, ev.key).data

\* C12: when the then reaction stores a value under a key that already has
\* an entry, the entry is replaced without a new slot: no other key leaves
\* the cache, the size is unchanged, and the key becomes the most recently
\* used (last) entry.
C12_SetReplacesInPlace ==
    [][\A p \in promises :
         (IsReaction(p, "then") /\ p.val.ok /\ MapHas(dataCache, p.key))
            => /\ \A k \in Keys : MapHas(dataCache, k) => MapHas(dataCache', k)
               /\ Len(dataCache') = Len(dataCache)
               /\ dataCache'[Len(dataCache')].k = p.key
               /\ MapGet(dataCache', p.key).data = p.val.v
      ]_vars

C14_RejectionCarriesStatusAndBody ==
    [][\A p \in promises :
         /\ (IsReaction(p, "settle") /\ ev'.resp.kind = "http" /\ ~ev'.resp.ok)
              => LET out == (CHOOSE q \in promises' : q.id = p.id).out IN
                 /\ ~out.ok
                 /\ Includes(out.v, ev'.resp.status)
                 /\ ev'.resp.text = "" \/ Includes(out.v, ev'.resp.text)
         /\ (IsReaction(p, "then") /\ ~p.out.ok) => dataCache' = dataCache
         /\ (IsDeliver(p) /\ ~p.out.ok) => ev'.http.status \in {"500", "502"}
      ]_vars

\* The promise chain with this id is registered in pendingRequests, or a
\* caller still awaits it.
InFlight(id) ==
    \/ \E k \in Keys : MapHas(pendingRequests, k) /\ MapGet(pendingRequests, k) = id
    \/ \E p \in promises : p.id = id /\ p.waiters > 0

\* C15: if every invoked producer eventually settles and queued callbacks
\* eventually run, then every pendingRequests entry is eventually removed,
\* and every promise chain a caller awaits (as first caller or coalesced)
\* eventually has delivered its value or rejection to all its callers.
C15_EventuallySettled ==
    \A id \in 1..MaxCalls : InFlight(id) ~> ~InFlight(id)

\* All calls have been made, the last caller has just received a rejection,
\* and nothing is in flight or awaited any more.
C15_Witness ==
    /\ nCalls = MaxCalls
    /\ ev.op = "rejected"
    /\ promises = {}
    /\ pendingRequests = <<>>

\* C16: on success the then reaction writes the cache before the finally
\* reaction removes the pendingRequests entry: from the producer's
\* resolution on, the key is in dataCache or in pendingRequests until the
\* entry expires or is evicted, and a fetch of the key while its entry is
\* stored and not expired, or while it is registered, starts no producer.
C16_NoSecondProducer ==
    /\ [](\A p \in promises :
            (p.phase # "pending" /\ p.out.ok)
               => /\ MapHas(dataCache, p.key) \/ MapHas(pendingRequests, p.key)
                  /\ p.phase \in {"then", "catch", "done"} => MapHas(dataCache, p.key)
                  /\ p.phase \in {"settled", "then", "catch"} => MapHas(pendingRequests, p.key))
    /\ [][\A k \in Keys :
            (/\ IsFetch(k)
             /\ \/ MapHas(pendingRequests, k)
                \/ MapHas(dataCache, k) /\ ~Expired(MapGet(dataCache, k), now))
               => ev'.op # "start"
         ]_vars

\* C17: a key leaves dataCache only in a get of that key after its expiry,
\* or in a set at capacity, which removes one entry, the least recently
\* touched one, whether or not another entry is already expired; a set
\* below capacity removes nothing, so expired entries that are not read
\* stay and count toward the size.
C17_LeavesByExpiredGetOrLruEviction ==
    [][LET gone == {k \in Keys : MapHas(dataCache, k) /\ ~MapHas(dataCache', k)} IN
       /\ \A k \in gone :
            \/ IsFetch(k) /\ Expired(MapGet(dataCache, k), now)
            \/ /\ \E p \in promises : IsReaction(p, "then") /\ p.val.ok
               /\ Len(dataCache) >= maxSize
               /\ gone = {k}
               /\ k = lru[1]
       /\ (\E p \in promises : IsReaction(p, "then") /\ Len(dataCache) < maxSize)
            => gone = {}
      ]_vars

\* The keys of a cache other than k, in iteration order.
KeysBut(c, k) == SelectSeq(MapKeys(c), LAMBDA x : x # k)

\* C18: a get that finds a live entry moves it to the most recent position
\* and changes nothing else: the entry's value and expiry, the other
\* entries and their order stay; no call of fetch changes the value or the
\* expiry of any entry; and a key gets a new expiry only in the then
\* reaction that stores a producer's result for it.
C18_HitOnlyMovesEntry ==
    [][\A k \in Keys :
         /\ (IsFetch(k) /\ ev'.got # Null)
              => /\ MapHas(dataCache', k)
                 /\ dataCache'[Len(dataCache')].k = k
                 /\ Len(dataCache') = Len(dataCache)
                 /\ KeysBut(dataCache', k) = KeysBut(dataCache, k)
         /\ (nCalls' = nCalls + 1 /\ MapHas(dataCache', k))
              => /\ MapHas(dataCache, k)
                 /\ MapGet(dataCache', k) = MapGet(dataCache, k)
         /\ (/\ MapHas(dataCache', k)
             /\ \/ ~MapHas(dataCache, k)
                \/ MapGet(dataCache', k).expiry # MapGet(dataCache, k).expiry)
              => /\ \E p \in promises :
                       IsReaction(p, "then") /\ p.key = k /\ p.val.ok
                 /\ MapGet(dataCache', k).expiry = now + cacheDuration
      ]_vars

\* A hit one duration after the storing: the entry has become the most
\* recent of two entries and still expires at this instant, as set when it
\* was stored.
C18_Witness ==
    /\ ev.op = "hit"
    /\ nCalls >= 3
    /\ Len(dataCache) = 2
    /\ dataCache[2].k = ev.key
    /\ dataCache[2].v.expiry = now
    /\ dataCache[1].v.expiry = now

\* C19: while a producer has not settled, its key stays registered to its
\* promise chain in pendingRequests; every fetch of the key in the meantime
\* joins that chain and invokes no producer; and no caller of the chain
\* receives a value or a rejection.  A producer that never settles thus
\* holds its key, and all its callers, forever.
C19_StuckProducerHoldsKey ==
    /\ [](\A p \in promises :
            p.phase = "pending"
               => /\ MapHas(pendingRequests, p.key)
                  /\ MapGet(pendingRequests, p.key) = p.id)
    /\ [][\A p \in promises :
            p.phase = "pending"
               => /\ IsFetch(p.key)
                       => /\ ev'.op = "join"
                          /\ ev'.id = p.id
                          /\ PromiseIds(promises') = PromiseIds(promises)
                          /\ \E q \in promises' : /\ q.id = p.id
                                                  /\ q.phase = "pending"
                                                  /\ q.waiters = p.waiters + 1
                  /\ ~(ev'.op \in {"resolved", "rejected"} /\ ev'.id = p.id)
                  /\ ~IsReaction(p, "settle")
                       => \E q \in promises' : /\ q.id = p.id
                                               /\ q.phase = "pending"
                                               /\ q.waiters >= p.waiters
         ]_vars

\* The clock has run out and the producer invoked by the first call has not
\* settled: every later call, the last one just now, was coalesced onto it.
C19_Witness ==
    /\ now = MaxTime
    /\ nCalls = MaxCalls
    /\ ev.op = "join"
    /\ \E p \in promises : /\ p.id = 1
                           /\ p.phase = "pending"
                           /\ p.waiters = MaxCalls
                           /\ ev.id = p.id

====
